---- MODULE Spec2Model ----
(***************************************************************************)
(* Model of owlyshield_predict/src/driver_com.rs: the usermode side of the *)
(* communication with the minifilter.  A Driver owns a port handle; the    *)
(* caller polls it with get_irp into a scratch buffer (vecnew), walks the  *)
(* reply with CDriverMsgs (unpack_drivermsg + Iterator::next), and sends   *)
(* kill / set-pid commands.  The byte decoders and the path encoder are    *)
(* pure functions, exercised by specifications of their own.              *)
(***************************************************************************)
EXTENDS Integers, Sequences, FiniteSets, TLC

(* ------------------------------------------------------------------ *)
(* Bounds of the model and constants of the program                    *)
(* ------------------------------------------------------------------ *)

\* Number of CDriverMsg slots of the scratch buffer that the model tracks.
NSlots == 2

\* Largest num_ops a reply header carries in the model.
MaxOps == 3

\* Longest "short" path the encoder is tried on (long ones sit around BufPathLen).
MaxShortPath == 3

\* type BufPath = [wchar_t; 520]
BufPathLen == 520

Slots == 1..NSlots

\* Addresses a pointer of the reply can hold: 0 is the null pointer.
Addrs == 0..NSlots

\* pid values the driver puts in the records it writes.
Pids == {7, 9}

\* Integers wider than TLC's are kept as their 16-bit limbs, most significant
\* first: a u32 (c_ulong, HRESULT) is <<hi, lo>>, a u64 (c_ulonglong, usize) four limbs.
Zero32 == <<0, 0>>

Zero64 == <<0, 0, 0, 0>>

\* Pid of this process (sysinfo::get_current_pid, a usize): 1234.
AppPids == {<<0, 0, 0, 1234>>}

\* gid values the caller asks to kill: 0, the spec's example 12345, 2^64 - 1.
Gids == {Zero64, <<0, 0, 0, 12345>>, <<65535, 65535, 65535, 65535>>}

\* Status codes the driver writes in the 4-byte reply of a kill: S_OK, E_FAIL (0x80004005).
KillStatus == {Zero32, <<32768, 16389>>}

\* windows::Error codes of a failed FilterSendMessage / FilterConnectCommunicationPort:
\* E_HANDLE (0x80070006).
TransportErrors == {<<32775, 6>>}

(* ------------------------------------------------------------------ *)
(* Wire types                                                          *)
(* ------------------------------------------------------------------ *)

\* enum ComMessageType, cast "as c_ulong": the discriminants in declaration order.
ComMessageType(name) ==
    CASE name = "MessageAddScanDirectory" -> 0
      [] name = "MessageRemScanDirectory" -> 1
      [] name = "MessageGetOps" -> 2
      [] name = "MessageSetPid" -> 3
      [] name = "MessageKillGid" -> 4

\* [0; 520]
ZeroBufPath == [i \in 1..BufPathLen |-> 0]

\* UTF-16 code units of one Unicode scalar value (str -> U16CString).
Utf16OfChar(cp) ==
    IF cp < 65536
    THEN <<cp>>
    ELSE <<55296 + ((cp - 65536) \div 1024), 56320 + ((cp - 65536) % 1024)>>

RECURSIVE Utf16(_)
\* UTF-16 code units of a string given as its sequence of scalar values: the units
\* of its characters in order (computed by halves to keep the evaluation shallow).
Utf16(s) ==
    IF s = <<>>
    THEN <<>>
    ELSE IF Len(s) = 1
         THEN Utf16OfChar(s[1])
         ELSE Utf16(SubSeq(s, 1, Len(s) \div 2))
                  \o Utf16(SubSeq(s, (Len(s) \div 2) + 1, Len(s)))

\* U16CString::from_str: Err when the string holds a nul, else the units;
\* as_slice_with_nul appends the terminator.
U16CString_from_str(s) ==
    LET u == Utf16(s)
    IN  IF \E i \in 1..Len(u) : u[i] = 0
        THEN [ok |-> FALSE, units |-> <<>>]
        ELSE [ok |-> TRUE, units |-> u \o <<0>>]

\* for (i, c) in temp.as_slice_with_nul().iter().enumerate() { buf[i] = c }
\* buf[i] is bounds-checked: the loop panics at the first index past the array,
\* which it reaches exactly when w is longer than the array; otherwise unit i of w
\* has been stored at index i and the other units of buf are untouched.
CopyLoop(buf, w) ==
    IF Len(w) > Len(buf)
    THEN [ok |-> FALSE, buf |-> <<>>]
    ELSE [ok |-> TRUE,
          buf |-> [i \in 1..Len(buf) |-> IF i <= Len(w) THEN w[i] ELSE buf[i]]]

\* Mutant: the copy stops at the end of the array instead of panicking.
string_to_commessage_buffer_truncating(bufstr) ==
    LET temp == U16CString_from_str(bufstr)
    IN  IF ~temp.ok
        THEN [ok |-> FALSE, buf |-> <<>>]
        ELSE [ok |-> TRUE,
              buf |-> [i \in 1..BufPathLen |->
                         IF i <= Len(temp.units) THEN temp.units[i] ELSE 0]]

\* Driver::string_to_commessage_buffer; ok = FALSE is a panic (unwrap, or index).
string_to_commessage_buffer(bufstr) ==
    LET temp == U16CString_from_str(bufstr)
    IN  IF ~temp.ok
        THEN [ok |-> FALSE, buf |-> <<>>]
        ELSE CopyLoop(ZeroBufPath, temp.units)

\* "pid as c_ulong": a usize cast to 32 bits keeps the two low limbs.
as_c_ulong(pid) == SubSeq(pid, 3, 4)

\* Driver::build_irp_msg
build_irp_msg(commsgtype, pid, gid, path) ==
    [type |-> ComMessageType(commsgtype),
     pid  |-> as_c_ulong(pid),
     gid  |-> gid,
     path |-> string_to_commessage_buffer(path).buf]

\* r"\Device\harddiskVolume"
DevicePath ==
    <<92, 68, 101, 118, 105, 99, 101, 92, 104, 97, 114, 100, 100, 105, 115,
      107, 86, 111, 108, 117, 109, 101>>

\* A record the driver writes: the pid stands for the copied fields, next is the link.
CDriverMsg == [pid : Pids \cup {0}, next : Addrs]

\* ReplyIrp: the header at the start of the buffer.
ReplyIrp == [data_size : 0..NSlots, data : Addrs, num_ops : 0..MaxOps]

\* Option / Result values, uniformly [tag, val].
Ret(tag, val) == [tag |-> tag, val |-> val]

NoItem == [tag |-> "Unset", val |-> [pid |-> 0, next |-> 0]]

\* No message: the call sends none.
NoMsg == [type |-> 0, pid |-> Zero32, gid |-> Zero64, path |-> <<>>]

NoCall ==
    [op |-> "none", arg |-> Zero64, ret |-> Ret("Unset", Zero32), nsend |-> 0,
     send |-> Ret("Unset", Zero32), out |-> Zero32]

NoReply == [tag |-> "Unset", val |-> [data_size |-> 0, data |-> 0, num_ops |-> 0]]

NoMsgs == [live |-> FALSE, drivermsgs |-> <<>>, index |-> 0]

ZeroBuf ==
    [hdr |-> [data_size |-> 0, data |-> 0, num_ops |-> 0],
     recs |-> [a \in Slots |-> [pid |-> 0, next |-> 0]]]

(* ------------------------------------------------------------------ *)
(* State                                                               *)
(* ------------------------------------------------------------------ *)

VARIABLES
    handle,       \* Driver.handle: "none" (no Driver yet), "open", "closed"
    app_pid,      \* get_current_pid()
    panicked,     \* the calling thread has panicked (expect / unwrap / index)
    crashed,      \* the process died on a null dereference (undefined behaviour)
    vecnew,       \* the scratch buffer passed to get_irp: header and record slots
    tmp,          \* bytes the driver reported written by the last get_irp
    reply_irp,    \* the Option<ReplyIrp> the last get_irp returned to the caller
    cdrivermsgs,  \* the CDriverMsgs the caller holds: drivermsgs (addresses), index
    item,         \* what the last Iterator::next returned
    at_unpack,    \* history: the record slots as they were when CDriverMsgs::new ran
    call,         \* the last Driver call: op, argument, return value, number of
                  \* sends, result of the send, reply the driver wrote
    byte,         \* decoders: the input byte
    decoded,      \* decoders: which decoder ran and what it returned
    path,         \* encoder: the input string (scalar values)
    encoded,      \* encoder: the result of string_to_commessage_buffer
    vecnew_capacity,  \* bytes allocated to the Vec<u8> passed to get_irp
    cmd,          \* build_irp_msg: its arguments commsgtype, pid, gid, path
    built,        \* build_irp_msg: the ComMessage it returned, if it returned
    ustr,         \* UnicodeString: the length units behind its buffer pointer
    filepathstr   \* UnicodeString::to_string: the String it returned

comVars == <<handle, app_pid, panicked, crashed, vecnew, tmp, reply_irp,
             cdrivermsgs, item, at_unpack, call, vecnew_capacity>>

decVars == <<byte, decoded>>

encVars == <<path, encoded>>

bldVars == <<cmd, built>>

strVars == <<ustr, filepathstr>>

vars == <<comVars, decVars, encVars, bldVars, strVars>>

(* ------------------------------------------------------------------ *)
(* The environment: the OS transport and the minifilter                *)
(* ------------------------------------------------------------------ *)

\* What FilterSendMessage can return on a handle: a closed handle only fails.
FilterSendMessage(h) ==
    {Ret("Err", e) : e \in TransportErrors}
        \cup (IF h = "open" THEN {Ret("Ok", Zero32)} ELSE {})

\* The batches the minifilter writes on a poll: n linked records in the first n
\* slots, a header pointing at the first one; the other slots keep what they held.
DriverWrites(buf) ==
    {[hdr  |-> [data_size |-> n, data |-> 1, num_ops |-> n],
      recs |-> [a \in Slots |->
                  IF a <= n
                  THEN [pid |-> pids[a], next |-> IF a < n THEN a + 1 ELSE 0]
                  ELSE buf.recs[a]]] :
        n \in Slots, pids \in [Slots -> Pids]}

(* ------------------------------------------------------------------ *)
(* Driver                                                              *)
(* ------------------------------------------------------------------ *)

Running == ~panicked /\ ~crashed

\* Driver::open_kernel_driver_com: FilterConnectCommunicationPort(...)? then Ok(Driver).
\* The minifilter accepts one connection at a time.
open_kernel_driver_com ==
    /\ Running
    /\ \E r \in {Ret("Err", e) : e \in TransportErrors}
                  \cup (IF handle = "open" THEN {} ELSE {Ret("Ok", Zero32)}) :
         /\ handle' = IF r.tag = "Ok" THEN "open" ELSE handle
         /\ call' = [op |-> "open_kernel_driver_com", arg |-> Zero64, ret |-> r,
                     nsend |-> 0, send |-> r, out |-> Zero32]
    /\ UNCHANGED <<app_pid, panicked, crashed, vecnew, tmp, reply_irp,
                   cdrivermsgs, item, at_unpack>>
    /\ UNCHANGED <<vecnew_capacity, decVars, encVars, bldVars, strVars>>

\* Driver::close_kernel_communication: CloseHandle(&self.handle).as_bool()
close_kernel_communication ==
    /\ Running
    /\ handle # "none"
    /\ handle' = "closed"
    /\ call' = [op |-> "close_kernel_communication", arg |-> Zero64,
                ret |-> Ret("Bool", IF handle = "open" THEN <<0, 1>> ELSE Zero32),
                nsend |-> 0, send |-> Ret("Unset", Zero32), out |-> Zero32]
    /\ UNCHANGED <<app_pid, panicked, crashed, vecnew, tmp, reply_irp,
                   cdrivermsgs, item, at_unpack>>
    /\ UNCHANGED <<vecnew_capacity, decVars, encVars, bldVars, strVars>>

\* The ComMessage driver_set_app_pid builds.
set_app_pid_msg(pid) ==
    [type |-> ComMessageType("MessageSetPid"),
     pid  |-> as_c_ulong(pid),
     gid  |-> <<0, 32762, 24361, 20851>>,   \* 140713315094899
     path |-> string_to_commessage_buffer(DevicePath).buf]

\* Driver::driver_set_app_pid: one FilterSendMessage, its Result returned as is.
driver_set_app_pid ==
    /\ Running
    /\ handle # "none"
    /\ \E r \in FilterSendMessage(handle) :
         call' = [op |-> "driver_set_app_pid", arg |-> Zero64, ret |-> r,
                  nsend |-> 1, send |-> r, out |-> Zero32]
    /\ UNCHANGED <<handle, app_pid, panicked, crashed, vecnew, tmp, reply_irp,
                   cdrivermsgs, item, at_unpack>>
    /\ UNCHANGED <<vecnew_capacity, decVars, encVars, bldVars, strVars>>

\* The ComMessage get_irp builds.
get_irp_msg(pid) == build_irp_msg("MessageGetOps", pid, Zero64, <<>>)

\* Mutant: the bytes-written test is dropped: a reply is read after every send.
get_irp_return_unchecked(bytes, buf) ==
    Ret("Some", buf.hdr)

\* get_irp after a successful send: Some(read_unaligned(vecnew)) if tmp != 0, else None.
get_irp_return(bytes, buf) ==
    IF bytes # 0 THEN Ret("Some", buf.hdr) ELSE Ret("None", NoReply.val)

\* The size of the reply buffer get_irp passes to FilterSendMessage, in bytes.
ReplyCapacity == 65536

\* The driver may fill the reply up to the size it was given.  When the buffer
\* is smaller, a batch may run past its end: the write is undefined, the process
\* may die of it or go on.  The value is whether the process has died.
WriteOutcomes(capacity) ==
    IF ReplyCapacity > capacity THEN BOOLEAN ELSE {FALSE}

\* Driver::get_irp(vecnew): one FilterSendMessage; .expect() panics on a failed send.
\* On success the driver wrote nothing (tmp = 0) or a batch (tmp = its size).
get_irp ==
    /\ Running
    /\ handle # "none"
    /\ \E r \in FilterSendMessage(handle) :
             IF r.tag = "Err"
             THEN /\ panicked' = TRUE
                  /\ call' = [op |-> "get_irp", arg |-> Zero64, ret |-> Ret("Panic", r.val),
                              nsend |-> 1, send |-> r, out |-> Zero32]
                  /\ tmp' = 0
                  /\ UNCHANGED <<vecnew, reply_irp, crashed>>
             ELSE /\ \/ /\ tmp' = 0
                        /\ vecnew' = vecnew
                        /\ crashed' = crashed
                     \/ \E w \in DriverWrites(vecnew) :
                          /\ tmp' = w.hdr.data_size
                          /\ vecnew' = w
                          /\ crashed' \in WriteOutcomes(vecnew_capacity)
                  /\ reply_irp' = get_irp_return(tmp', vecnew')
                  /\ call' = [op |-> "get_irp", arg |-> Zero64,
                              ret |-> Ret(reply_irp'.tag, Zero32),
                              nsend |-> 1, send |-> r, out |-> <<0, tmp'>>]
                  /\ UNCHANGED panicked
    /\ UNCHANGED <<handle, app_pid, cdrivermsgs, item, at_unpack>>
    /\ UNCHANGED <<vecnew_capacity, decVars, encVars, bldVars, strVars>>

\* The ComMessage try_kill builds.
kill_msg(gid) ==
    [type |-> ComMessageType("MessageKillGid"), pid |-> Zero32, gid |-> gid,
     path |-> ZeroBufPath]

\* Mutant: the status is interpreted: any failure code is flattened to 1.
try_kill_return_interpreted(r, res) ==
    IF r.tag = "Err" THEN r ELSE Ret("Ok", IF res = Zero32 THEN Zero32 ELSE <<0, 1>>)

\* try_kill after the send: `?` returns the Err; else Ok(HRESULT(res)).
try_kill_return(r, res) ==
    IF r.tag = "Err" THEN r ELSE Ret("Ok", res)

\* Driver::try_kill(gid): one FilterSendMessage with a 4-byte reply buffer res.
try_kill ==
    /\ Running
    /\ handle # "none"
    /\ \E gid \in Gids :
         \E r \in FilterSendMessage(handle) :
               \E res \in (IF r.tag = "Ok" THEN KillStatus ELSE {Zero32}) :
                 call' = [op |-> "try_kill", arg |-> gid,
                          ret |-> try_kill_return(r, res),
                          nsend |-> 1, send |-> r, out |-> res]
    /\ UNCHANGED <<handle, app_pid, panicked, crashed, vecnew, tmp, reply_irp,
                   cdrivermsgs, item, at_unpack>>
    /\ UNCHANGED <<vecnew_capacity, decVars, encVars, bldVars, strVars>>

\* The ComMessage the last call handed to FilterSendMessage: each call builds its
\* message from its arguments alone.
sent_msg ==
    CASE call.op = "driver_set_app_pid" -> set_app_pid_msg(app_pid)
      [] call.op = "get_irp" -> get_irp_msg(app_pid)
      [] call.op = "try_kill" -> kill_msg(call.arg)
      [] OTHER -> NoMsg

(* ------------------------------------------------------------------ *)
(* shared_def: ReplyIrp::unpack_drivermsg, CDriverMsgs                 *)
(* ------------------------------------------------------------------ *)

\* *p for a record pointer p: slot p of the buffer; g is what a read through the
\* null pointer produces (undefined behaviour, chosen by the caller of the model).
Deref(recs, g, p) == IF p = 0 THEN g ELSE recs[p]

RECURSIVE unpack_loop(_, _, _, _, _, _)
\* for _ in 1..num_ops { if msg.next.is_null() { break } msg = &*msg.next; res.push(msg) }
unpack_loop(recs, g, msg, res, k, num_ops) ==
    IF k >= num_ops
    THEN res
    ELSE IF Deref(recs, g, msg).next = 0
         THEN res
         ELSE unpack_loop(recs, g, Deref(recs, g, msg).next,
                          Append(res, Deref(recs, g, msg).next), k + 1, num_ops)

\* Mutant: the walk starts its count one too far (for _ in 2..num_ops).
unpack_drivermsg_short(irp, recs, g) ==
    unpack_loop(recs, g, irp.data, <<irp.data>>, 2, irp.num_ops)

\* Mutant: the null test is missing: the walk follows every link.
RECURSIVE unpack_loop_nonull(_, _, _, _, _, _)
unpack_loop_nonull(recs, g, msg, res, k, num_ops) ==
    IF k >= num_ops
    THEN res
    ELSE unpack_loop_nonull(recs, g, Deref(recs, g, msg).next,
                            Append(res, Deref(recs, g, msg).next), k + 1, num_ops)

unpack_drivermsg_nonull(irp, recs, g) ==
    unpack_loop_nonull(recs, g, irp.data, <<irp.data>>, 1, irp.num_ops)

\* Mutant: the walk has one hop too many (for _ in 0..num_ops).
unpack_drivermsg_overrun(irp, recs, g) ==
    unpack_loop(recs, g, irp.data, <<irp.data>>, 0, irp.num_ops)

\* ReplyIrp::unpack_drivermsg: the first record is pushed before any test.
unpack_drivermsg(irp, recs, g) ==
    unpack_loop(recs, g, irp.data, <<irp.data>>, 1, irp.num_ops)

\* CDriverMsgs::new(&irp): drivermsgs = irp.unpack_drivermsg(), index = 0.
\* &*self.data on a null data pointer is undefined: the process dies, or the walk
\* goes on with whatever the read through null produced.
CDriverMsgs_new ==
    /\ Running
    /\ reply_irp.tag = "Some"
    /\ \/ /\ reply_irp.val.data # 0
          /\ cdrivermsgs' = [live |-> TRUE,
                             drivermsgs |-> unpack_drivermsg(reply_irp.val,
                                                vecnew.recs, NoItem.val),
                             index |-> 0]
          /\ UNCHANGED crashed
       \/ /\ reply_irp.val.data = 0
          /\ \E g \in CDriverMsg :
               cdrivermsgs' = [live |-> TRUE,
                               drivermsgs |-> unpack_drivermsg(reply_irp.val,
                                                  vecnew.recs, g),
                               index |-> 0]
          /\ UNCHANGED crashed
       \/ /\ reply_irp.val.data = 0
          /\ crashed' = TRUE
          /\ cdrivermsgs' = NoMsgs
    /\ item' = NoItem
    /\ at_unpack' = vecnew.recs
    /\ UNCHANGED <<handle, app_pid, panicked, vecnew, tmp, reply_irp, call>>
    /\ UNCHANGED <<vecnew_capacity, decVars, encVars, bldVars, strVars>>

\* Mutant: next copies the record after the one at index.
next_item_off_by_one(msgs, recs, g) ==
    IF msgs.index + 1 >= Len(msgs.drivermsgs)
    THEN Ret("None", NoItem.val)
    ELSE Ret("Some", Deref(recs, g, msgs.drivermsgs[msgs.index + 2]))

\* Iterator::next's value: None at the end, else Some(*self.drivermsgs[self.index]).
next_item(msgs, recs, g) ==
    IF msgs.index = Len(msgs.drivermsgs)
    THEN Ret("None", NoItem.val)
    ELSE Ret("Some", Deref(recs, g, msgs.drivermsgs[msgs.index + 1]))

\* <CDriverMsgs as Iterator>::next: the record is copied out of the buffer now.
\* A null element of drivermsgs is read through: the process dies or reads anything.
Iterator_next ==
    /\ Running
    /\ cdrivermsgs.live
    /\ LET atEnd == cdrivermsgs.index = Len(cdrivermsgs.drivermsgs)
           null == ~atEnd /\ cdrivermsgs.drivermsgs[cdrivermsgs.index + 1] = 0
       IN  \/ /\ ~null
              /\ item' = next_item(cdrivermsgs, vecnew.recs, NoItem.val)
              /\ cdrivermsgs' = [cdrivermsgs EXCEPT
                                   !.index = IF atEnd THEN @ ELSE @ + 1]
              /\ UNCHANGED crashed
           \/ /\ null
              /\ \E g \in CDriverMsg :
                   item' = next_item(cdrivermsgs, vecnew.recs, g)
              /\ cdrivermsgs' = [cdrivermsgs EXCEPT !.index = @ + 1]
              /\ UNCHANGED crashed
           \/ /\ null
              /\ crashed' = TRUE
              /\ UNCHANGED <<item, cdrivermsgs>>
    /\ UNCHANGED <<handle, app_pid, panicked, vecnew, tmp, reply_irp, at_unpack, call>>
    /\ UNCHANGED <<vecnew_capacity, decVars, encVars, bldVars, strVars>>

(* ------------------------------------------------------------------ *)
(* Specification of the communication layer                            *)
(* ------------------------------------------------------------------ *)

IdleDec == byte = 0 /\ decoded = [dec |-> "none", tag |-> "Unset", val |-> "none"]

IdleEnc == path = <<>> /\ encoded = [done |-> FALSE, ok |-> FALSE, buf |-> <<>>]

IdleBld ==
    /\ cmd = [commsgtype |-> "MessageGetOps", pid |-> Zero64, gid |-> Zero64,
              path |-> <<>>]
    /\ built = [done |-> FALSE, ok |-> FALSE, msg |-> NoMsg]

IdleStr == ustr = <<>> /\ filepathstr = [done |-> FALSE, chars |-> <<>>]

\* The caller's state before it has opened the port: a zeroed scratch buffer of
\* the size get_irp gives the driver.
InitCom ==
    /\ handle = "none"
    /\ app_pid \in AppPids
    /\ panicked = FALSE
    /\ crashed = FALSE
    /\ vecnew = ZeroBuf
    /\ tmp = 0
    /\ reply_irp = NoReply
    /\ cdrivermsgs = NoMsgs
    /\ item = NoItem
    /\ at_unpack = ZeroBuf.recs
    /\ call = NoCall
    /\ vecnew_capacity = ReplyCapacity

Init == InitCom /\ IdleDec /\ IdleEnc /\ IdleBld /\ IdleStr

Next ==
    \/ open_kernel_driver_com
    \/ close_kernel_communication
    \/ driver_set_app_pid
    \/ get_irp
    \/ try_kill
    \/ CDriverMsgs_new
    \/ Iterator_next

Spec == Init /\ [][Next]_vars

(* ------------------------------------------------------------------ *)
(* Specification of polling with any scratch buffer: get_irp is public  *)
(* and takes any Vec<u8>                                               *)
(* ------------------------------------------------------------------ *)

\* Sizes in bytes of the buffers a caller passes: an empty Vec, a page, the
\* size get_irp gives the driver, and twice that.
VecCapacities == {0, 4096, ReplyCapacity, 2 * ReplyCapacity}

InitPoll ==
    /\ handle = "none"
    /\ app_pid \in AppPids
    /\ panicked = FALSE
    /\ crashed = FALSE
    /\ vecnew = ZeroBuf
    /\ tmp = 0
    /\ reply_irp = NoReply
    /\ cdrivermsgs = NoMsgs
    /\ item = NoItem
    /\ at_unpack = ZeroBuf.recs
    /\ call = NoCall
    /\ vecnew_capacity \in VecCapacities
    /\ IdleDec
    /\ IdleEnc
    /\ IdleBld
    /\ IdleStr

NextPoll ==
    \/ open_kernel_driver_com
    \/ close_kernel_communication
    \/ get_irp

SpecPoll == InitPoll /\ [][NextPoll]_vars

(* ------------------------------------------------------------------ *)
(* Specification of unpack on any reply: the caller holds a ReplyIrp    *)
(* over a buffer with any header and any links, and walks it            *)
(* ------------------------------------------------------------------ *)

\* Every content of the modelled buffer: any first-record pointer (null too), any
\* count, any link in every slot (null, forward, backward, to itself).
AnyBuf ==
    {[hdr |-> [data_size |-> n, data |-> d, num_ops |-> n], recs |-> r] :
        n \in 0..MaxOps, d \in Addrs, r \in [Slots -> [pid : Pids, next : Addrs]]}

InitUnpack ==
    /\ handle = "open"
    /\ app_pid \in AppPids
    /\ panicked = FALSE
    /\ crashed = FALSE
    /\ vecnew \in AnyBuf
    /\ tmp = 1
    /\ reply_irp = Ret("Some", vecnew.hdr)
    /\ cdrivermsgs = NoMsgs
    /\ item = NoItem
    /\ at_unpack = ZeroBuf.recs
    /\ call = NoCall
    /\ vecnew_capacity = ReplyCapacity
    /\ IdleDec
    /\ IdleEnc
    /\ IdleBld
    /\ IdleStr

NextUnpack ==
    \/ CDriverMsgs_new
    \/ Iterator_next

SpecUnpack == InitUnpack /\ [][NextUnpack]_vars

(* ------------------------------------------------------------------ *)
(* The status-code decoders                                            *)
(* ------------------------------------------------------------------ *)

\* Mutant: the fallback arm panics instead of returning IrpNone.
IrpMajorOp_from_byte_partial(b) ==
    CASE b = 0 -> "IrpNone"
      [] b = 1 -> "IrpRead"
      [] b = 2 -> "IrpWrite"
      [] b = 3 -> "IrpSetInfo"
      [] b = 4 -> "IrpCreate"
      [] b = 5 -> "IrpCreate"
      [] OTHER -> "panic"

\* IrpMajorOp::from_byte
IrpMajorOp_from_byte(b) ==
    CASE b = 0 -> "IrpNone"
      [] b = 1 -> "IrpRead"
      [] b = 2 -> "IrpWrite"
      [] b = 3 -> "IrpSetInfo"
      [] b = 4 -> "IrpCreate"
      [] b = 5 -> "IrpCreate"
      [] OTHER -> "IrpNone"

\* enum IrpMajorOp, in declaration order.
IrpMajorOp ==
    <<"IrpNone", "IrpRead", "IrpWrite", "IrpSetInfo", "IrpCreate", "IrpCleanUp">>

\* enum FileChangeInfo, in declaration order (discriminants 0..8).
FileChangeInfo ==
    <<"FileChangeNotSet", "FileOpenDirectory", "FileChangeWrite",
      "FileChangeNewFile", "FileChangeRenameFile", "FileChangeExtensionChanged",
      "FileChangeDeleteFile", "FileChangeDeleteNewFile", "FileChangeOverwriteFile">>

\* enum FileLocationInfo, in declaration order (discriminants 0..3).
FileLocationInfo ==
    <<"FileNotProtected", "FileProtected", "FileMovedIn", "FileMovedOut">>

\* #[derive(FromPrimitive)]: from_u8(b) is Some(the variant whose discriminant is b),
\* and None when no variant has that discriminant.
FromPrimitive_from_u8(variants, b) ==
    IF b < Len(variants)
    THEN [tag |-> "Some", val |-> variants[b + 1]]
    ELSE [tag |-> "None", val |-> "none"]

decode_irp_op ==
    /\ decoded' = [dec |-> "IrpMajorOp", tag |-> "Value",
                   val |-> IrpMajorOp_from_byte(byte)]
    /\ UNCHANGED <<byte, comVars, encVars, bldVars, strVars>>

decode_file_change ==
    /\ decoded' = [dec |-> "FileChangeInfo",
                   tag |-> FromPrimitive_from_u8(FileChangeInfo, byte).tag,
                   val |-> FromPrimitive_from_u8(FileChangeInfo, byte).val]
    /\ UNCHANGED <<byte, comVars, encVars, bldVars, strVars>>

decode_file_location ==
    /\ decoded' = [dec |-> "FileLocationInfo",
                   tag |-> FromPrimitive_from_u8(FileLocationInfo, byte).tag,
                   val |-> FromPrimitive_from_u8(FileLocationInfo, byte).val]
    /\ UNCHANGED <<byte, comVars, encVars, bldVars, strVars>>

\* Every value of a u8.
InitDecode ==
    /\ InitCom
    /\ byte \in 0..255
    /\ decoded = [dec |-> "none", tag |-> "Unset", val |-> "none"]
    /\ IdleEnc
    /\ IdleBld
    /\ IdleStr

NextDecode ==
    \/ decode_irp_op
    \/ decode_file_change
    \/ decode_file_location

SpecDecode == InitDecode /\ [][NextDecode]_vars

(* ------------------------------------------------------------------ *)
(* The path encoder                                                    *)
(* ------------------------------------------------------------------ *)

\* Characters of the paths tried: 'A', '\', the euro sign (one unit each) and
\* U+1F600 (a surrogate pair).  A path holds no nul character.
PathChars == {65, 92, 8364, 128512}

\* Lengths, in characters: short ones, and those around the capacity in units
\* for one-unit and for two-unit characters.
PathLens ==
    (0..MaxShortPath)
        \cup ((BufPathLen - 4)..(BufPathLen + 1))
        \cup (((BufPathLen \div 2) - 3)..((BufPathLen \div 2) + 1))

Fill(n, c) == [i \in 1..n |-> c]

\* n times the same character, or one other character and then n times the same.
PathInputs ==
    {Fill(n, c) : n \in PathLens, c \in PathChars}
        \cup {<<d>> \o Fill(n, c) : n \in PathLens, c \in PathChars, d \in PathChars}

encode_path ==
    /\ ~encoded.done
    /\ encoded' = [done |-> TRUE,
                   ok |-> string_to_commessage_buffer(path).ok,
                   buf |-> string_to_commessage_buffer(path).buf]
    /\ UNCHANGED <<path, comVars, decVars, bldVars, strVars>>

InitEncode ==
    /\ InitCom
    /\ IdleDec
    /\ path \in PathInputs
    /\ encoded = [done |-> FALSE, ok |-> FALSE, buf |-> <<>>]
    /\ IdleBld
    /\ IdleStr

NextEncode == encode_path

SpecEncode == InitEncode /\ [][NextEncode]_vars

(* ------------------------------------------------------------------ *)
(* shared_def: UnicodeString::to_string                                *)
(* ------------------------------------------------------------------ *)

\* The longest span of units of the file paths tried.
MaxSpanLen == 3

IsHighSurrogate(u) == u >= 55296 /\ u <= 56319

IsLowSurrogate(u) == u >= 56320 /\ u <= 57343

\* What the unit at index i of v contributes to the decoded string: a unit that
\* is no surrogate is its own character; a high surrogate followed by a low one
\* gives, with it, one character beyond U+FFFF; any other surrogate is replaced
\* by U+FFFD.
DecodeAt(v, i) ==
    IF IsHighSurrogate(v[i])
    THEN IF i < Len(v) /\ IsLowSurrogate(v[i + 1])
         THEN <<65536 + ((v[i] - 55296) * 1024) + (v[i + 1] - 56320)>>
         ELSE <<65533>>
    ELSE IF IsLowSurrogate(v[i])
         THEN IF i > 1 /\ IsHighSurrogate(v[i - 1]) THEN <<>> ELSE <<65533>>
         ELSE <<v[i]>>

RECURSIVE DecodeRange(_, _, _)
\* The characters decoded from the units lo..hi of v (computed by halves).
DecodeRange(v, lo, hi) ==
    IF lo > hi
    THEN <<>>
    ELSE IF lo = hi
         THEN DecodeAt(v, lo)
         ELSE DecodeRange(v, lo, (lo + hi) \div 2)
                  \o DecodeRange(v, ((lo + hi) \div 2) + 1, hi)

\* String::from_utf16_lossy: the string as its sequence of scalar values.
String_from_utf16_lossy(v) == DecodeRange(v, 1, Len(v))

\* The loop of to_string: first_zero_index starts at 0 and is set to the index
\* (from 0) of the first zero unit, if the loop meets one.
first_zero_index(str_slice) ==
    LET zeros == {i \in 1..Len(str_slice) : str_slice[i] = 0}
    IN  IF zeros = {}
        THEN 0
        ELSE (CHOOSE i \in zeros : \A j \in zeros : i <= j) - 1

\* UnicodeString::to_string on a span of length units:
\* String::from_utf16_lossy(&str_slice[..first_zero_index])
to_string(str_slice) ==
    String_from_utf16_lossy(SubSeq(str_slice, 1, first_zero_index(str_slice)))

\* Units of the spans tried: nul, 'A', a high and a low surrogate.
SpanUnits == {0, 65, 55357, 56832}

\* Every span of at most MaxSpanLen of these units.
Spans == UNION {[1..n -> SpanUnits] : n \in 0..MaxSpanLen}

\* DriverMsg::from: filepathstr: c_drivermsg.filepath.to_string()
UnicodeString_to_string ==
    /\ ~filepathstr.done
    /\ filepathstr' = [done |-> TRUE, chars |-> to_string(ustr)]
    /\ UNCHANGED <<ustr, comVars, decVars, encVars, bldVars>>

InitString ==
    /\ InitCom
    /\ IdleDec
    /\ IdleEnc
    /\ IdleBld
    /\ ustr \in Spans
    /\ filepathstr = [done |-> FALSE, chars |-> <<>>]

NextString == UnicodeString_to_string

SpecString == InitString /\ [][NextString]_vars

(* ------------------------------------------------------------------ *)
(* The command encoder                                                 *)
(* ------------------------------------------------------------------ *)

\* The variants of enum ComMessageType.
ComMessageTypes ==
    {"MessageAddScanDirectory", "MessageRemScanDirectory", "MessageGetOps",
     "MessageSetPid", "MessageKillGid"}

\* Values of a Pid, a usize: one below 2^16, the largest of 32 bits, and one
\* that needs more than 32 bits (2^32 + 1234).
BuildPids == {<<0, 0, 0, 1234>>, <<0, 0, 65535, 65535>>, <<0, 1, 0, 1234>>}

\* Paths given to build_irp_msg: the short ones, the longest that fits the
\* array with its terminator, and one unit longer.
BuildPaths ==
    {p \in PathInputs : Len(p) <= MaxShortPath}
        \cup {Fill(BufPathLen - 1, 65), Fill(BufPathLen, 65)}

\* Driver::build_irp_msg called on cmd; ok = FALSE when the path encoder panicked.
call_build_irp_msg ==
    /\ ~built.done
    /\ LET b == string_to_commessage_buffer(cmd.path)
       IN  built' = [done |-> TRUE,
                     ok   |-> b.ok,
                     msg  |-> IF b.ok
                              THEN build_irp_msg(cmd.commsgtype, cmd.pid, cmd.gid,
                                                 cmd.path)
                              ELSE NoMsg]
    /\ UNCHANGED <<cmd, comVars, decVars, encVars, strVars>>

InitBuild ==
    /\ InitCom
    /\ IdleDec
    /\ IdleEnc
    /\ IdleStr
    /\ cmd \in [commsgtype : ComMessageTypes, pid : BuildPids, gid : Gids,
                path : BuildPaths]
    /\ built = [done |-> FALSE, ok |-> FALSE, msg |-> NoMsg]

NextBuild == call_build_irp_msg

SpecBuild == InitBuild /\ [][NextBuild]_vars

(* ------------------------------------------------------------------ *)
(* Properties                                                          *)
(* ------------------------------------------------------------------ *)

RECURSIVE NthInLinkOrder(_, _, _)
\* The address of the i-th record in link order from `first` (0 once the chain ended).
NthInLinkOrder(recs, first, i) ==
    IF i = 1
    THEN first
    ELSE IF NthInLinkOrder(recs, first, i - 1) = 0
         THEN 0
         ELSE recs[NthInLinkOrder(recs, first, i - 1)].next

\* The chain from irp.data holds at least k records and the k-th link is null.
ChainEndsAt(irp, recs, k) ==
    /\ k >= 1
    /\ \A i \in 1..k : NthInLinkOrder(recs, irp.data, i) # 0
    /\ recs[NthInLinkOrder(recs, irp.data, k)].next = 0

\* The iterator holds exactly the first k records in link order, and what it has
\* yielded so far is those records, in that order, with nothing past them.
YieldsFirst(irp, recs, k) ==
    /\ ~crashed
    /\ ~panicked
    /\ Len(cdrivermsgs.drivermsgs) = k
    /\ \A i \in 1..k : cdrivermsgs.drivermsgs[i] = NthInLinkOrder(recs, irp.data, i)
    /\ cdrivermsgs.index <= k
    /\ item.tag = "Some" =>
         /\ cdrivermsgs.index >= 1
         /\ item.val = recs[NthInLinkOrder(recs, irp.data, cdrivermsgs.index)]
    /\ item.tag = "None" => cdrivermsgs.index = k

\* C1: every record the iterator yields equals the record that was in the buffer
\* when CDriverMsgs::new returned, whatever was written to the buffer since.
C1_CopyBeforeReturn ==
    (cdrivermsgs.live /\ item.tag = "Some") =>
        item.val = Deref(at_unpack, NoItem.val,
                         cdrivermsgs.drivermsgs[cdrivermsgs.index])

\* C2: a reply with num_ops = N >= 1 over exactly N linked records (the N-th link
\* null) is unpacked to exactly N records, the i-th being the i-th in link order.
C2_UnpackAllInOrder ==
    (cdrivermsgs.live
        /\ ChainEndsAt(reply_irp.val, vecnew.recs, reply_irp.val.num_ops)) =>
        YieldsFirst(reply_irp.val, vecnew.recs, reply_irp.val.num_ops)

\* C2 witness: a two-record reply has been walked to its end.
C2_Witness ==
    /\ cdrivermsgs.live
    /\ reply_irp.val.num_ops = 2
    /\ ChainEndsAt(reply_irp.val, vecnew.recs, 2)
    /\ item.tag = "None"
    /\ cdrivermsgs.index = 2

\* C3: a reply whose header is valid (its data pointer points into the buffer) and
\* has num_ops = 0 is unpacked to the empty sequence: no record is held, none is
\* yielded.
C3_EmptyOnZeroCount ==
    (reply_irp.val.num_ops = 0 /\ reply_irp.val.data # 0) =>
        /\ ~crashed
        /\ cdrivermsgs.live => cdrivermsgs.drivermsgs = <<>>
        /\ item.tag # "Some"

\* C4: when the link of the k-th record is null with 1 <= k < num_ops, unpack holds
\* exactly the first k records in link order, never a null one, and nothing fails.
C4_PrematureNull ==
    \A k \in 1..MaxOps :
        (cdrivermsgs.live
            /\ k < reply_irp.val.num_ops
            /\ ChainEndsAt(reply_irp.val, vecnew.recs, k)) =>
            /\ YieldsFirst(reply_irp.val, vecnew.recs, k)
            /\ \A i \in 1..Len(cdrivermsgs.drivermsgs) : cdrivermsgs.drivermsgs[i] # 0

\* C4 witness: the count says three, the second link is null, and the walk of the
\* two records is over.
C4_Witness ==
    /\ cdrivermsgs.live
    /\ reply_irp.val.num_ops = 3
    /\ ChainEndsAt(reply_irp.val, vecnew.recs, 2)
    /\ item.tag = "None"
    /\ cdrivermsgs.index = 2

\* A get_irp whose send succeeded returns None exactly when the driver reported zero
\* bytes, and otherwise the header that sits at the start of the buffer.
GetIrpReturnsByBytes ==
    (call.op = "get_irp" /\ call.send.tag = "Ok") =>
        /\ call.ret.tag = "None" <=> tmp = 0
        /\ tmp = 0 => reply_irp.tag = "None"
        /\ tmp # 0 => reply_irp = Ret("Some", vecnew.hdr)

\* A get_irp that returns None leaves the port, the buffer and the iterator as
\* they were.
EmptyPollChangesNothing ==
    (call'.op = "get_irp" /\ call'.ret.tag = "None" /\ get_irp) =>
        UNCHANGED <<handle, app_pid, panicked, crashed, vecnew, cdrivermsgs, item>>

\* C5: get_irp returns None exactly when the driver reports zero bytes written and
\* otherwise the header read from the start of the buffer; a poll that returned
\* None changed no state, so the next empty poll returns None again.
C5_PollNoneIffZeroBytes ==
    /\ []GetIrpReturnsByBytes
    /\ [][EmptyPollChangesNothing]_vars

\* C5 witness: an empty poll after a batch had been written to the buffer.
C5_Witness ==
    /\ call.op = "get_irp"
    /\ call.ret.tag = "None"
    /\ tmp = 0
    /\ vecnew # ZeroBuf

\* C6: when the send under get_irp fails, get_irp hands its caller an error, after
\* that one send, and the caller goes on running (it can close and reopen).
C6_TransportFailureSurfaced ==
    (call.op = "get_irp" /\ call.send.tag = "Err") =>
        /\ call.ret.tag = "Err"
        /\ call.nsend = 1
        /\ ~panicked

\* C7: try_kill(gid) makes one send, of a kill-group command carrying gid; on a
\* successful send it returns the status the driver wrote, as is; on a failed send it
\* returns the error and does not panic.
C7_TryKillOnce ==
    call.op = "try_kill" =>
        /\ call.nsend = 1
        /\ sent_msg.type = 4
        /\ sent_msg.gid = call.arg
        /\ call.send.tag = "Ok" => call.ret = Ret("Ok", call.out)
        /\ call.send.tag = "Err" => call.ret = call.send
        /\ ~panicked

\* C7 witness: a kill whose send succeeded and whose driver status is a failure code.
C7_Witness ==
    /\ call.op = "try_kill"
    /\ call.send.tag = "Ok"
    /\ call.out # Zero32
    /\ call.arg = <<0, 0, 0, 12345>>

\* The variants and the default of the enum a decoder decodes to.
VariantsOf(dec) ==
    CASE dec = "IrpMajorOp" -> IrpMajorOp
      [] dec = "FileChangeInfo" -> FileChangeInfo
      [] dec = "FileLocationInfo" -> FileLocationInfo

\* C8: every byte decodes, with each of the three decoders, to a variant of the
\* enum, and a byte past the last defined code decodes to the enum's first variant
\* (IrpNone, FileChangeNotSet, FileNotProtected).
C8_DecodersTotalWithDefault ==
    decoded.dec # "none" =>
        /\ \E i \in 1..Len(VariantsOf(decoded.dec)) :
             decoded.val = VariantsOf(decoded.dec)[i]
        /\ byte >= Len(VariantsOf(decoded.dec)) =>
             decoded.val = VariantsOf(decoded.dec)[1]

\* C9: the operation decoder maps 0..5 to None, Read, Write, SetInfo, Create,
\* Cleanup, each code to its own variant.
C9_OperationCodes ==
    (decoded.dec = "IrpMajorOp" /\ byte <= 5) =>
        decoded.val = IrpMajorOp[byte + 1]

\* C10: a path of at most 520 UTF-16 units with its terminator is written whole,
\* terminator included, the rest of the buffer zero; a longer one makes the encoder
\* fail and produce no buffer.
C10_NoSilentTruncation ==
    encoded.done =>
        LET u == Utf16(path)
        IN  /\ Len(u) + 1 <= 520 =>
                 /\ encoded.ok
                 /\ Len(encoded.buf) = 520
                 /\ \A i \in 1..Len(u) : encoded.buf[i] = u[i]
                 /\ \A i \in (Len(u) + 1)..520 : encoded.buf[i] = 0
            /\ Len(u) + 1 >= 521 =>
                 /\ ~encoded.ok
                 /\ encoded.buf = <<>>

\* C10 witness: a path that fills the buffer exactly (519 units and the terminator).
C10_Witness ==
    /\ encoded.done
    /\ Len(Utf16(path)) + 1 = 520
    /\ encoded.ok
    /\ encoded.buf[519] # 0

\* The units of a path array up to its terminator.
UpToNul(buf) ==
    LET zeros == {i \in 1..Len(buf) : buf[i] = 0}
    IN  IF zeros = {}
        THEN buf
        ELSE SubSeq(buf, 1, (CHOOSE i \in zeros : \A j \in zeros : i <= j) - 1)

\* The path fits the array: its UTF-16 form and the terminator take at most
\* 520 units.
FitsBufPath(p) == Len(Utf16(p)) + 1 <= BufPathLen

C12_UnusedFieldsZero ==
    /\ call.op = "driver_set_app_pid" =>
         (sent_msg.gid = Zero64 /\ sent_msg.path = ZeroBufPath)
    /\ call.op = "get_irp" =>
         (sent_msg.gid = Zero64 /\ sent_msg.path = ZeroBufPath)
    /\ call.op = "try_kill" =>
         (sent_msg.pid = Zero32 /\ sent_msg.path = ZeroBufPath)

\* C13: whatever the links are (a cycle, a chain longer than the count), the walk
\* of a reply with num_ops >= 1 ends, having followed at most num_ops - 1 links:
\* it holds at most num_ops records, and they are the first ones in link order.
C13_BoundedWalk ==
    (cdrivermsgs.live /\ reply_irp.val.num_ops >= 1 /\ reply_irp.val.data # 0) =>
        /\ ~crashed
        /\ Len(cdrivermsgs.drivermsgs) >= 1
        /\ Len(cdrivermsgs.drivermsgs) - 1 <= reply_irp.val.num_ops - 1
        /\ \A i \in 1..Len(cdrivermsgs.drivermsgs) :
             /\ cdrivermsgs.drivermsgs[i] # 0
             /\ cdrivermsgs.drivermsgs[i]
                    = NthInLinkOrder(vecnew.recs, reply_irp.val.data, i)

\* C13 witness: two records linked in a cycle and a count of three: the walk took
\* two hops, came back to the first record and stopped there; all three were
\* yielded.
C13_Witness ==
    /\ cdrivermsgs.live
    /\ reply_irp.val.num_ops = 3
    /\ reply_irp.val.data = 1
    /\ vecnew.recs[1].next = 2
    /\ vecnew.recs[2].next = 1
    /\ cdrivermsgs.drivermsgs = <<1, 2, 1>>
    /\ cdrivermsgs.index = 3
    /\ item.tag = "None"

\* C14: to_string returns the string of the units before the first zero unit of
\* the span, or of all its units when none is zero; a non-empty span without a
\* zero unit does not give the empty string.
C14_PathDecoding ==
    filepathstr.done =>
        /\ filepathstr.chars = String_from_utf16_lossy(UpToNul(ustr))
        /\ (ustr # <<>> /\ \A i \in 1..Len(ustr) : ustr[i] # 0) =>
               filepathstr.chars # <<>>

\* C15: on every poll the reply size given to the driver is at most the size of
\* the buffer the caller passed, so the driver is never allowed to write past
\* the end of it.
C15_ReplyCapacityWithinBuffer ==
    call.op = "get_irp" => ReplyCapacity <= vecnew_capacity

====
